---- MODULE Spec2Model ----
(***************************************************************************)
(* A model of the contour threader of src/Contour.js: the level set        *)
(* (setContLevels), the per-edge limits table (allocBounds, initFlags,     *)
(* getTB) and the tracing loop of threadContour, one action per branch of  *)
(* one loop iteration.  Sample values are integers; interpolated           *)
(* coordinates, delta and the interpolation parameter are exact rationals. *)
(***************************************************************************)
EXTENDS Integers, Sequences, FiniteSets, TLC

\* ------------------------------------------------------------------------
\* Bounds of the model
\* ------------------------------------------------------------------------
\* the two-valued grids have at most MaxRows rows, MaxCols columns and
\* MaxCells vertices (rows * columns)
MaxRows == 3
MaxCols == 3
MaxCells == 9
\* the 2 x 2 grids take their samples from 0 .. MaxSample
MaxSample == 3
\* the ramp grids [0,5,10] have 2 .. MaxRampRows rows
MaxRampRows == 3

\* ------------------------------------------------------------------------
\* Program constants (src/Contour.js 14-38)
\* ------------------------------------------------------------------------
DELTA_DIV == 10000
CLOCKWISE == 1
CLOSED == 0
COUNTERCLOCKWISE == -1
MAX_LOOP_LIMIT == 255
HORIZONTAL == 0
VERTICAL == 1
LEFT_EDGE == 0
TOP_EDGE == 1
RIGHT_EDGE == 2
BOTTOM_EDGE == 3

xdirec == [d \in 0..3 |-> CASE d = 0 -> 1 [] d = 1 -> 0 [] d = 2 -> -1 [] OTHER -> 0]
ydirec == [d \in 0..3 |-> CASE d = 0 -> 0 [] d = 1 -> 1 [] d = 2 -> 0 [] OTHER -> -1]
nexd == [d \in 0..3 |-> CASE d = 0 -> 1 [] d = 1 -> 2 [] d = 2 -> 3 [] OTHER -> 0]
nsd == [d \in 0..3 |-> CASE d = 0 -> 3 [] d = 1 -> 0 [] d = 2 -> 1 [] OTHER -> 2]
id == [d \in 0..3 |-> CASE d = 0 -> 2 [] d = 1 -> 3 [] d = 2 -> 0 [] OTHER -> 1]

\* allocBounds: this.ns = 0; this.ms = 0
ns == 0
ms == 0

\* the contour interval setupContours passes to setContLevels
SETUP_INTERVAL == 2

\* a field that was never assigned (or null) is the empty tuple; an assigned
\* field holding v is <<v>>
undefined == <<>>
Def(v) == <<v>>

\* ------------------------------------------------------------------------
\* Exact rational arithmetic for the floating-point values of the program.
\* A rational is [n |-> numerator, d |-> denominator], d > 0, in lowest terms.
\* The operations are functions, so that an argument is evaluated once.
\* ------------------------------------------------------------------------
Abs(i) == IF i < 0 THEN -i ELSE i

Gcd[a \in Nat, b \in Nat] == IF b = 0 THEN a ELSE Gcd[b, a % b]

Rat(num, den) ==
    LET s == IF den < 0 THEN -1 ELSE 1
        g == Gcd[Abs(num), Abs(den)]
    IN  [n |-> (s * num) \div g, d |-> (s * den) \div g]

RInt(i) == [n |-> i, d |-> 1]

Rats == [n : Int, d : Nat]

RNeg[a \in Rats] == [n |-> -a.n, d |-> a.d]

RAdd[a \in Rats, b \in Rats] ==
    LET g == Gcd[a.d, b.d]
    IN  Rat(a.n * (b.d \div g) + b.n * (a.d \div g), (a.d \div g) * b.d)

RSub[a \in Rats, b \in Rats] == RAdd[a, RNeg[b]]

RMul[a \in Rats, b \in Rats] ==
    LET g1 == Gcd[Abs(a.n), b.d]
        g2 == Gcd[Abs(b.n), a.d]
    IN  Rat((a.n \div g1) * (b.n \div g2), (a.d \div g2) * (b.d \div g1))

\* a / b, b # 0
RDiv[a \in Rats, b \in Rats] ==
    RMul[a, IF b.n < 0 THEN [n |-> -b.d, d |-> -b.n] ELSE [n |-> b.d, d |-> b.n]]

RAbs[a \in Rats] == [n |-> Abs(a.n), d |-> a.d]

RFloor(a) == a.n \div a.d

\* a < b, by comparing the continued fractions (no products, so no overflow)
RLess[a \in Rats, b \in Rats] ==
    LET fa == RFloor(a)
        fb == RFloor(b)
        ra == a.n - fa * a.d
        rb == b.n - fb * b.d
    IN  IF fa # fb THEN fa < fb
        ELSE IF rb = 0 THEN FALSE
        ELSE IF ra = 0 THEN TRUE
        ELSE RLess[[n |-> b.d, d |-> rb], [n |-> a.d, d |-> ra]]

RLeq[a \in Rats, b \in Rats] == ~RLess[b, a]

\* const EPSILON = 0.0005
EPSILON == Rat(5, 10000)

\* Number.MIN_VALUE, the smallest positive double: |x| < MIN_VALUE iff x = 0
BelowMinValue(a) == a.n = 0

\* ------------------------------------------------------------------------
\* Small helpers of the class
\* ------------------------------------------------------------------------
\* fpsign(arg)
fpsign(arg) == IF arg.n < 0 THEN RInt(-1) ELSE RInt(1)

\* The outcomes of the floating-point comparison a < b.  The program computes
\* a and b in double precision; when their exact values are equal, rounding
\* decides the comparison, so both outcomes are possible.
FloatLess[a \in Rats, b \in Rats] ==
    IF a = b THEN {TRUE, FALSE} ELSE {RLess[a, b]}

\* fpnear(a, b): the outcomes of Math.abs(a - b) < EPSILON
fpnear(a, b) == FloatLess[RAbs[RSub[a, b]], EPSILON]

\* FindEdge, given the outcomes of its three fpnear tests
EdgeOf(nearRight, nearTop, nearBottom) ==
    IF nearRight THEN RIGHT_EDGE
    ELSE IF nearTop THEN TOP_EDGE
    ELSE IF nearBottom THEN BOTTOM_EDGE
    ELSE LEFT_EDGE

\* FindEdge(x, y, xmax, ymax): the edges it can return
FindEdge(x, y, xmax, ymax) ==
    {EdgeOf(r, t, b) : <<r, t, b>> \in fpnear(x, RInt(xmax))
                                      \X fpnear(y, RInt(ymax))
                                      \X fpnear(y, RInt(0))}

\* a JavaScript array as a sequence: element i of the array is s[i + 1]
At(s, i) == s[i + 1]

Min(a, b) == IF a < b THEN a ELSE b
Max(a, b) == IF a > b THEN a ELSE b

\* Math.ceil(a / b) for integers a and b > 0
CeilDiv(a, b) == -((-a) \div b)

\* ------------------------------------------------------------------------
\* setupContours: allocBounds, setContLevels, initFlags
\* ------------------------------------------------------------------------
\* class ContourLimit, as constructed
NewContourLimit ==
    [top0 |-> MAX_LOOP_LIMIT, bot0 |-> MAX_LOOP_LIMIT,
     top1 |-> MAX_LOOP_LIMIT, bot1 |-> MAX_LOOP_LIMIT,
     CW0 |-> CLOSED, CW1 |-> CLOSED]

Rows(arr) == Len(arr)
Cols(arr) == Len(arr[1])

\* the samples of a grid (array[i][j] is arr[i + 1][j + 1])
Sample(arr, i, j) == arr[i + 1][j + 1]

SamplesOf(arr) == {arr[i][j] : i \in 1..Len(arr), j \in 1..Len(arr[1])}

\* allocBounds: the minimum and maximum sample
MinZ(arr) == CHOOSE m \in SamplesOf(arr) : \A s \in SamplesOf(arr) : m <= s
MaxZ(arr) == CHOOSE m \in SamplesOf(arr) : \A s \in SamplesOf(arr) : m >= s

\* the numbers a division by 0 gives: x / 0 for x > 0, and 0 / 0
Infinity == "Infinity"
NaN == "NaN"

\* setContLevels: nCont = Math.ceil((maxZ - minZ) / contInterval)
NCont(zmin, zmax, contInterval) ==
    IF contInterval > 0 THEN CeilDiv(zmax - zmin, contInterval)
    ELSE IF contInterval < 0 THEN -((zmax - zmin) \div (-contInterval))
    ELSE IF zmax > zmin THEN Infinity
    ELSE NaN

\* setContLevels: the levels pushed onto contLevels
NewLevels(zmin, zmax, contInterval) ==
    [i \in 1..NCont(zmin, zmax, contInterval) |-> zmin + (i - 1) * contInterval]

\* setContLevels: delta = (maxZ - minZ) / DELTA_DIV
Delta(zmin, zmax) == Rat(zmax - zmin, DELTA_DIV)

\* getTB: "while (t > 0 && this.contLevels[t] > hi) t--": the loop stops at
\* the highest index of 1 .. t whose level is not above hi, or at 0
ScanDown(levels, t, hi) ==
    LET stops == {i \in 1..t : \A k \in i..t : k = i <=> ~(At(levels, k) > hi)}
    IN  IF stops # {} THEN CHOOSE i \in stops : TRUE
        ELSE IF t > 0 THEN 0 ELSE t

\* getTB: "while (b <= t && this.contLevels[b] <= lo) b++": the loop stops at
\* the lowest index of b .. t whose level is above lo, or at t + 1
ScanUp(levels, b, t, lo) ==
    LET stops == {i \in b..t : \A k \in b..i : k = i <=> ~(At(levels, k) <= lo)}
    IN  IF stops # {} THEN CHOOSE i \in stops : TRUE
        ELSE IF b <= t THEN t + 1 ELSE b

\* a getTB that takes v for the larger sample without comparing
getTBNoCompare(levels, v, u, uplim) ==
    LET t == ScanDown(levels, uplim, v)
    IN  [t |-> t, b |-> ScanUp(levels, 0, t, u)]

\* getTB(v, u, uplim) over this.contLevels = levels
getTB(levels, v, u, uplim) ==
    IF v > u
    THEN LET t == ScanDown(levels, uplim, v)
         IN  [t |-> t, b |-> ScanUp(levels, 0, t, u)]
    ELSE LET t == ScanDown(levels, uplim, u)
         IN  [t |-> t, b |-> ScanUp(levels, 0, t, v)]

\* an initFlags that gives the upward limb the sign rule of the rightward one
InitBoundSameRule(arr, levels, i, j) ==
    LET uplim == Len(levels) - 1
        u == Sample(arr, i, j)
        hasX == j < Cols(arr) - 1
        hasY == i < Rows(arr) - 1
        vX == Sample(arr, i, j + 1)
        vY == Sample(arr, i + 1, j)
        tbX == getTB(levels, vX, u, uplim)
        tbY == getTB(levels, vY, u, uplim)
    IN  [top0 |-> IF hasX THEN tbX.t ELSE MAX_LOOP_LIMIT,
         bot0 |-> IF hasX THEN tbX.b ELSE MAX_LOOP_LIMIT,
         CW0 |-> IF hasX THEN (IF vX < u THEN COUNTERCLOCKWISE ELSE CLOCKWISE)
                 ELSE CLOSED,
         top1 |-> IF hasY THEN tbY.t ELSE MAX_LOOP_LIMIT,
         bot1 |-> IF hasY THEN tbY.b ELSE MAX_LOOP_LIMIT,
         CW1 |-> IF hasY THEN (IF vY < u THEN COUNTERCLOCKWISE ELSE CLOCKWISE)
                 ELSE CLOSED]

\* initFlags: the record of vertex (i, j)
InitBound(arr, levels, i, j) ==
    LET uplim == Len(levels) - 1
        u == Sample(arr, i, j)
        hasX == j < Cols(arr) - 1
        hasY == i < Rows(arr) - 1
        vX == Sample(arr, i, j + 1)
        vY == Sample(arr, i + 1, j)
        tbX == getTB(levels, vX, u, uplim)
        tbY == getTB(levels, vY, u, uplim)
    IN  [top0 |-> IF hasX THEN tbX.t ELSE MAX_LOOP_LIMIT,
         bot0 |-> IF hasX THEN tbX.b ELSE MAX_LOOP_LIMIT,
         CW0 |-> IF hasX THEN (IF vX < u THEN COUNTERCLOCKWISE ELSE CLOCKWISE)
                 ELSE CLOSED,
         top1 |-> IF hasY THEN tbY.t ELSE MAX_LOOP_LIMIT,
         bot1 |-> IF hasY THEN tbY.b ELSE MAX_LOOP_LIMIT,
         CW1 |-> IF hasY THEN (IF vY > u THEN COUNTERCLOCKWISE ELSE CLOCKWISE)
                 ELSE CLOSED]

\* initFlags: the whole table, bounds[i][j] for 0 <= i < mf, 0 <= j < nf
InitFlags(arr, levels) ==
    [i \in 0..(Rows(arr) - 1) |->
        [j \in 0..(Cols(arr) - 1) |-> InitBound(arr, levels, i, j)]]

\* ------------------------------------------------------------------------
\* The grids the model draws from (array[i][j] is arr[i + 1][j + 1])
\* ------------------------------------------------------------------------
GridsOver(r, c, vals) == [1..r -> [1..c -> vals]]

\* the samples of the two-valued grids
BinarySamples == {0, 5}

\* all two-valued grids of at least 2 x 2 vertices within the bounds
BinaryGrids ==
    UNION {GridsOver(rc[1], rc[2], BinarySamples) :
             rc \in {p \in (2..MaxRows) \X (2..MaxCols) :
                       p[1] * p[2] <= MaxCells}}

\* all 2 x 2 grids over 0 .. MaxSample
SmallGrids == GridsOver(2, 2, 0..MaxSample)

\* the grid with one peak in the centre
PeakGrid == <<<<0, 0, 0>>, <<0, 10, 0>>, <<0, 0, 0>>>>

\* the grids whose every row is [0, 5, 10]
RampGrid(r) == [i \in 1..r |-> <<0, 5, 10>>]
RampGrids == {RampGrid(r) : r \in 2..MaxRampRows}

ExampleGrids == {PeakGrid} \cup RampGrids

Grids == BinaryGrids \cup SmallGrids

\* ------------------------------------------------------------------------
\* State
\* ------------------------------------------------------------------------
VARIABLES
    pc,             \* "new": constructed; "ready": set up, no trace running;
                    \* "thread": inside the loop of threadContour
                    \* "thrown": threadContour left by an exception
                    \* "levelled": setContLevels returned, initFlags not
                    \* called; "levels": inside the loop of setContLevels
    array,          \* the caller's grid
    mf, nf, minZ, maxZ, nCont, delta,      \* fields of Contour
    contLevels, bounds, contourVectors,    \* fields of Contour
    contourNum, contourLevel,              \* parameters of threadContour
    bExit, bStart, bEdg, bInRange, bCont,  \* locals of threadContour
    dt, d0, direc, lmb, vecTop,
    x0, x1, x2, xlmb, y0, y1, y2, ylmb,
    tt, ccwknt, ccwval,
    bound,          \* null (undefined) or <<ylmb, xlmb>>: the record
                    \* this.bounds[ylmb][xlmb] the local refers to
    contVec,        \* the ContourVector under construction
    nextNum,        \* the caller's loop index: the next level index to trace
    initBounds,     \* history: the table as initFlags left it
    hits,           \* history: the edges that yielded a point in this trace,
                    \* with the point and its interpolation parameter
    probed,         \* history: the limbs whose bot this trace has compared
                    \* with contourNum
    visited,        \* history: the vertices (x1, y1) this trace's cursor has
                    \* stood on while it was scanning
    vecBase,        \* history: contourVectors.length when this trace began
    calls,          \* history: the <<contourNum, contourLevel>> of every call
                    \* of threadContour so far
    kinds,          \* history: how each pushed curve was finalized, and
                    \* bInRange and contourNum at that moment
    setups,         \* history: the grid and the interval of every setup so
                    \* far, with the lengths of contLevels and contourVectors
                    \* and the number of calls of threadContour when it began
    args, result,   \* a method called on its own: its arguments and what it
                    \* returned (<<>> before the call)
    revision        \* which text of the class runs: FALSE for src/Contour.js,
                    \* TRUE for the revision src/unnamed/part_004

fields == <<array, mf, nf, minZ, maxZ, nCont, delta, contLevels>>
params == <<contourNum, contourLevel>>
probeVars == <<x2, y2, bInRange, bCont, lmb, xlmb, ylmb, bound, tt, ccwval>>
navVars == <<bExit, bStart, bEdg, dt, d0, direc, x0, x1, y0, y1>>
curveVars == <<vecTop, ccwknt, contVec, contourVectors, kinds>>
history == <<nextNum, initBounds, hits, probed, visited, vecBase, calls>>
direct == <<args, result>>
vars == <<pc, fields, bounds, params, probeVars, navVars, curveVars, history,
          setups, direct, revision>>

\* class ContourVector, as constructed (elmKnt is never assigned or read)
NewContourVector ==
    [x |-> <<>>, y |-> <<>>, stCW |-> undefined, finCW |-> undefined,
     stEdge |-> undefined, finEdge |-> undefined]

\* threadContour 257-285: the locals as declared
InitLocals ==
    /\ bExit = FALSE /\ bStart = TRUE /\ bEdg = TRUE /\ bInRange = TRUE
    /\ bCont = FALSE /\ dt = 0 /\ d0 = 0 /\ direc = 0 /\ lmb = 0
    /\ vecTop = 0 /\ x0 = 0 /\ x1 = ns /\ x2 = 0 /\ xlmb = 0
    /\ y0 = 0 /\ y1 = ms /\ y2 = 0 /\ ylmb = 0
    /\ tt = undefined /\ ccwknt = 0 /\ ccwval = 0
    /\ bound = undefined /\ contVec = NewContourVector

\* A Contour object as constructed.  The numeric fields are not assigned
\* before allocBounds and setContLevels run, and the parameters do not exist
\* before the first call: 0 stands for them here and is never read.
Constructed ==
    /\ pc = "new"
    /\ array = <<>>
    /\ mf = 0 /\ nf = 0 /\ minZ = 0 /\ maxZ = 0
    /\ nCont = 0 /\ delta = RInt(0)
    /\ contLevels = <<>> /\ bounds = <<>> /\ contourVectors = <<>>
    /\ contourNum = 0 /\ contourLevel = 0
    /\ InitLocals
    /\ nextNum = 0 /\ initBounds = <<>> /\ hits = <<>> /\ vecBase = 0
    /\ probed = {} /\ visited = {}
    /\ calls = <<>>
    /\ kinds = <<>>
    /\ setups = <<>>

\* the object as constructed, no method called on its own
Init == Constructed /\ args = <<>> /\ result = <<>> /\ revision = FALSE

\* allocBounds(arr); setContLevels(arr, contInterval); initFlags(arr)
SetupWith(arr, contInterval) ==
    /\ pc = "new"
    /\ pc' = "ready"
    /\ array' = arr
    /\ mf' = Rows(arr) /\ nf' = Cols(arr)
    /\ minZ' = MinZ(arr) /\ maxZ' = MaxZ(arr)
    /\ nCont' = NCont(MinZ(arr), MaxZ(arr), contInterval)
    /\ contLevels' = contLevels \o NewLevels(MinZ(arr), MaxZ(arr), contInterval)
    /\ delta' = Delta(MinZ(arr), MaxZ(arr))
    /\ bounds' = InitFlags(arr, contLevels')
    /\ initBounds' = bounds'
    /\ nextNum' = 0
    /\ setups' = Append(setups, [arr |-> arr, interval |-> contInterval,
                                  levels |-> Len(contLevels),
                                  curves |-> Len(contourVectors),
                                  calls |-> Len(calls)])
    /\ UNCHANGED <<params, probeVars, navVars, curveVars, hits, probed,
                   visited, vecBase, calls, direct, revision>>

\* setupContours(arr)
setupContours == \E arr \in Grids : SetupWith(arr, SETUP_INTERVAL)

\* the three setup calls with the interval 5, which puts 5 in the level set
SetupExample == \E arr \in ExampleGrids : SetupWith(arr, 5)

\* threadContour(array, num, level): entry, the locals as declared
Enter(num, level) ==
    /\ pc = "ready"
    /\ pc' = "thread"
    /\ contourNum' = num /\ contourLevel' = level
    /\ bExit' = FALSE /\ bStart' = TRUE /\ bEdg' = TRUE /\ bInRange' = TRUE
    /\ bCont' = FALSE /\ dt' = 0 /\ d0' = 0 /\ direc' = 0 /\ lmb' = 0
    /\ vecTop' = 0 /\ x0' = 0 /\ x1' = ns /\ x2' = 0 /\ xlmb' = 0
    /\ y0' = 0 /\ y1' = ms /\ y2' = 0 /\ ylmb' = 0
    /\ tt' = undefined /\ ccwknt' = 0 /\ ccwval' = 0
    /\ bound' = undefined /\ contVec' = NewContourVector
    /\ hits' = <<>> /\ vecBase' = Len(contourVectors)
    /\ probed' = {} /\ visited' = {}
    /\ calls' = Append(calls, <<num, level>>)
    /\ UNCHANGED <<fields, bounds, contourVectors, kinds, initBounds, setups,
                   direct, revision>>

\* the caller's loop: threadContour(array, i, contLevels[i]) for i = 0, 1, ...
threadContour ==
    /\ pc = "ready"
    /\ nextNum < nCont
    /\ Enter(nextNum, At(contLevels, nextNum))
    /\ nextNum' = nextNum + 1

\* ------------------------------------------------------------------------
\* One iteration of the while loop of threadContour: the probe (287-369)
\* ------------------------------------------------------------------------
\* inRange(): x2 is always assigned, y2 only when x2 is inside the grid
X2 == x1 + xdirec[direc]
XInRange == X2 >= ns /\ X2 < nf
Y2 == IF XInRange THEN y1 + ydirec[direc] ELSE y2

\* inRange with the row test one too wide
inRangeUpToMf == XInRange /\ Y2 >= ms /\ Y2 <= mf
inRange == XInRange /\ Y2 >= ms /\ Y2 < mf

\* 296-308: the limb probed and its record
Lmb == IF x1 = X2 THEN VERTICAL ELSE HORIZONTAL
Xlmb == IF x1 = X2 THEN X2 ELSE (IF X2 > x1 THEN x1 ELSE X2)
Ylmb == IF x1 = X2 THEN (IF Y2 > y1 THEN y1 ELSE Y2) ELSE y1
Bound == bounds[Ylmb][Xlmb]
Cont ==
    IF x1 = X2 THEN Bound.bot1 = contourNum ELSE Bound.bot0 = contourNum

\* 317-318: m1 after its nudge
NudgeM1[m1 \in Rats, m2 \in Rats, level \in Rats, dlt \in Rats] ==
    IF RLeq[RAbs[RSub[level, m1]], dlt]
    THEN RAdd[m1, IF RLess[m1, m2] THEN dlt ELSE RNeg[dlt]]
    ELSE m1

\* 320-321: m2 after its nudge (m1 is the nudged m1)
NudgeM2[m1 \in Rats, m2 \in Rats, level \in Rats, dlt \in Rats] ==
    IF RLeq[RAbs[RSub[level, m2]], dlt]
    THEN RAdd[m2, IF RLess[m2, m1] THEN dlt ELSE RNeg[dlt]]
    ELSE m2

\* 323-329: the interpolation parameter tt for samples m1, m2 (rationals)
Intercept[m1 \in Rats, m2 \in Rats, level \in Rats, dlt \in Rats] ==
    LET n1 == NudgeM1[m1, m2, level, dlt]
        n2 == NudgeM2[n1, m2, level, dlt]
        t0 == IF BelowMinValue(RAbs[RSub[n2, n1]]) THEN RInt(0)
              ELSE RDiv[RSub[level, n1], RSub[n2, n1]]
    IN  IF RLeq[RInt(1), RAbs[t0]]
        THEN RMul[RSub[RInt(1), dlt], fpsign(t0)]
        ELSE t0

\* 331-332: (b - a) * t + a
Lerp[a \in Int, b \in Int, t \in Rats] == RAdd[RMul[RInt(b - a), t], RInt(a)]

\* 314-332 in the current state
TT ==
    Intercept[RInt(Sample(array, y1, x1)), RInt(Sample(array, Y2, X2)),
              RInt(contourLevel), delta]
U == Lerp[x1, X2, TT]
V == Lerp[y1, Y2, TT]

\* 357-367: the record with the probed limb marked as used
MarkUsed(b, limb) ==
    IF limb # HORIZONTAL
    THEN [b EXCEPT !.bot1 = IF b.bot1 + 1 > b.top1 THEN MAX_LOOP_LIMIT
                             ELSE b.bot1 + 1]
    ELSE [b EXCEPT !.bot0 = IF b.bot0 + 1 > b.top0 THEN MAX_LOOP_LIMIT
                             ELSE b.bot0 + 1]

\* part_004 394-403: the revision marks the other limb of the record: after
\* a crossing of the vertical limb it advances botX (bot0), after a crossing
\* of the horizontal limb botY (bot1)
MarkUsedRevised(b, limb) ==
    IF limb = VERTICAL
    THEN [b EXCEPT !.bot0 = IF b.bot0 + 1 > b.top0 THEN MAX_LOOP_LIMIT
                             ELSE b.bot0 + 1]
    ELSE [b EXCEPT !.bot1 = IF b.bot1 + 1 > b.top1 THEN MAX_LOOP_LIMIT
                             ELSE b.bot1 + 1]

\* part_004 354-358: the nudges of the revision read this.delta inside a
\* nested function of a strict-mode file, where this is undefined: the read
\* throws a TypeError when the level is within delta of the lower sample
ThrowsRevised[m1 \in Rats, m2 \in Rats, level \in Rats, dlt \in Rats] ==
    \/ RLeq[RAbs[RSub[level, m1]], dlt] /\ RLess[m1, m2]
    \/ /\ RLeq[RAbs[RSub[level, m2]], dlt]
       /\ RLess[m2, NudgeM1[m1, m2, level, dlt]]

\* 345-350: the entry slope value, from the first point of the curve
EntrySlope(b, limb, px, py) ==
    IF limb = HORIZONTAL
    THEN (IF px.n > 0 THEN -b.CW0 ELSE b.CW0)
    ELSE (IF py.n > 0 THEN -b.CW1 ELSE b.CW1)

\* whether this iteration interpolates a point
Found == inRange /\ Cont

\* whether the interpolation of this iteration throws in the revision
ThrowsNow ==
    /\ revision /\ Found
    /\ ThrowsRevised[RInt(Sample(array, y1, x1)), RInt(Sample(array, Y2, X2)),
                     RInt(contourLevel), delta]

\* 352: the edges FindEdge can return for the first point of the curve
\* (one placeholder when this iteration stores no first point)
StEdges ==
    IF Found /\ vecTop + 1 = 1
    THEN FindEdge(U, V, nf - 1, mf - 1)
    ELSE {LEFT_EDGE}

\* 335-353: the curve after the point is stored, FindEdge returning edg
Pushed(edg) ==
    LET c == [contVec EXCEPT !.x = Append(@, U), !.y = Append(@, V)]
    IN  IF vecTop + 1 = 1
        THEN [c EXCEPT
                !.stCW = Def(EntrySlope(Bound, Lmb, At(c.x, 0), At(c.y, 0))),
                !.stEdge = Def(edg)]
        ELSE c

\* the values of the curve variables when the probe is over
CurveNow(edg) == IF Found THEN Pushed(edg) ELSE contVec
VecTopNow == IF Found THEN vecTop + 1 ELSE vecTop
CcwvalNow ==
    IF Found /\ vecTop + 1 = 1
    THEN EntrySlope(Bound, Lmb, U, V)
    ELSE ccwval
CcwkntNow == IF Found THEN ccwknt + CcwvalNow ELSE ccwknt

\* 288-369: what the probe assigns, apart from the curve
Probe ==
    /\ ~ThrowsNow
    /\ x2' = X2
    /\ y2' = Y2
    /\ bInRange' = inRange
    /\ IF inRange
       THEN /\ lmb' = Lmb /\ xlmb' = Xlmb /\ ylmb' = Ylmb
            /\ bound' = <<Ylmb, Xlmb>>
            /\ bCont' = Cont
            /\ probed' = probed \cup {<<Lmb, Ylmb, Xlmb>>}
       ELSE UNCHANGED <<lmb, xlmb, ylmb, bound, bCont, probed>>
    /\ visited' = IF bStart THEN visited \cup {<<x1, y1>>} ELSE visited
    /\ IF Found
       THEN /\ tt' = Def(TT)
            /\ bounds' = [bounds EXCEPT ![Ylmb][Xlmb] =
                                     IF revision THEN MarkUsedRevised(@, Lmb)
                                     ELSE MarkUsed(@, Lmb)]
            /\ hits' = Append(hits, [lmb |-> Lmb, y |-> Ylmb, x |-> Xlmb,
                                      px |-> U, py |-> V, tt |-> TT])
       ELSE UNCHANGED <<tt, bounds, hits>>
    /\ ccwval' = CcwvalNow
    /\ UNCHANGED <<fields, params, nextNum, initBounds, vecBase, calls, setups,
                   direct, revision>>

\* part_004 330-358: the iteration of the revision that throws: the probe has
\* assigned its locals, nothing is stored and threadContour does not return
ThrowTypeError ==
    /\ pc = "thread" /\ ~bExit /\ ThrowsNow
    /\ pc' = "thrown"
    /\ x2' = X2 /\ y2' = Y2
    /\ bInRange' = TRUE /\ bCont' = TRUE
    /\ lmb' = Lmb /\ xlmb' = Xlmb /\ ylmb' = Ylmb
    /\ bound' = <<Ylmb, Xlmb>>
    /\ probed' = probed \cup {<<Lmb, Ylmb, Xlmb>>}
    /\ visited' = IF bStart THEN visited \cup {<<x1, y1>>} ELSE visited
    /\ UNCHANGED <<fields, bounds, params, tt, ccwval, navVars, curveVars,
                   nextNum, initBounds, hits, vecBase, calls, setups, direct,
                   revision>>

\* ------------------------------------------------------------------------
\* One iteration of the while loop: the navigation (371-489), one action
\* per branch
\* ------------------------------------------------------------------------
InLoop == pc = "thread" /\ ~bExit

\* 445-458: SCANNING, a crossing found: anchor the curve and follow it
StartCurve ==
    /\ InLoop /\ bStart /\ inRange /\ Cont
    /\ Probe
    /\ x0' = x1 /\ y0' = y1 /\ d0' = direc
    /\ x1' = X2 /\ y1' = Y2
    /\ dt' = direc
    /\ bStart' = FALSE
    /\ direc' = nexd[direc]
    /\ \E edg \in StEdges : contVec' = CurveNow(edg)
    /\ vecTop' = VecTopNow /\ ccwknt' = CcwkntNow
    /\ UNCHANGED <<pc, bExit, bEdg, contourVectors, kinds>>

\* 459-462: SCANNING, no crossing on the probed edge: move along it
ScanStep ==
    /\ InLoop /\ bStart /\ inRange /\ ~Cont
    /\ Probe
    /\ x1' = X2 /\ y1' = Y2
    /\ UNCHANGED <<pc, bExit, bStart, bEdg, dt, d0, direc, x0, y0, curveVars>>

\* 465-472: SCANNING the border, the probe left the grid
ScanBorder ==
    /\ InLoop /\ bStart /\ ~inRange /\ bEdg
    /\ Probe
    /\ IF Y2 < ms
       THEN /\ x1' = ns /\ y1' = ms + 1 /\ direc' = 0 /\ bEdg' = FALSE
       ELSE /\ direc' = nexd[direc]
            /\ UNCHANGED <<x1, y1, bEdg>>
    /\ UNCHANGED <<pc, bExit, bStart, dt, d0, x0, y0, curveVars>>

\* a sweep that goes from the perimeter's first row straight to the columns
ScanSweepColumnsOnly ==
    /\ InLoop /\ bStart /\ ~inRange /\ ~bEdg
    /\ Probe
    /\ IF direc = 1
       THEN /\ y1' = ms /\ x1' = x1 + 1
            /\ bExit' = (x1 + 1 >= nf)
            /\ direc' = direc
       ELSE /\ bExit' = bExit
            /\ x1' = ns + 1 /\ y1' = ms /\ direc' = 1
    /\ pc' = IF bExit' THEN "ready" ELSE "thread"
    /\ UNCHANGED <<bStart, bEdg, dt, d0, x0, y0, curveVars>>

\* 473-487: SCANNING the rows, then the columns, the probe left the grid
ScanSweep ==
    /\ InLoop /\ bStart /\ ~inRange /\ ~bEdg
    /\ Probe
    /\ IF direc = 1
       THEN /\ y1' = ms /\ x1' = x1 + 1
            /\ bExit' = (x1 + 1 >= nf)
            /\ direc' = direc
       ELSE /\ bExit' = bExit
            /\ IF y1 + 1 >= mf
               THEN x1' = ns + 1 /\ y1' = ms /\ direc' = 1
               ELSE x1' = ns /\ y1' = y1 + 1 /\ direc' = direc
    /\ pc' = IF bExit' THEN "ready" ELSE "thread"
    /\ UNCHANGED <<bStart, bEdg, dt, d0, x0, y0, curveVars>>

\* a crossing found in FOLLOWING that leaves dt as it was
FollowCrossingKeepDt ==
    /\ InLoop /\ ~bStart /\ inRange /\ Cont
    /\ Probe
    /\ direc' = nsd[direc]
    /\ \E edg \in StEdges : contVec' = CurveNow(edg)
    /\ vecTop' = VecTopNow /\ ccwknt' = CcwkntNow
    /\ UNCHANGED <<pc, bExit, bStart, bEdg, dt, d0, x0, x1, y0, y1,
                   contourVectors, kinds>>

\* 373-375: FOLLOWING, a crossing found
FollowCrossing ==
    /\ InLoop /\ ~bStart /\ inRange /\ Cont
    /\ Probe
    /\ dt' = id[direc]
    /\ direc' = nsd[direc]
    /\ \E edg \in StEdges : contVec' = CurveNow(edg)
    /\ vecTop' = VecTopNow /\ ccwknt' = CcwkntNow
    /\ UNCHANGED <<pc, bExit, bStart, bEdg, d0, x0, x1, y0, y1,
                   contourVectors, kinds>>

\* a turn in FOLLOWING that leaves the cursor where it was
FollowTurnStay ==
    /\ InLoop /\ ~bStart /\ inRange /\ ~Cont
    /\ nexd[direc] # dt
    /\ Probe
    /\ direc' = nexd[direc]
    /\ UNCHANGED <<pc, bExit, bStart, bEdg, dt, d0, x0, x1, y0, y1, curveVars>>

\* 376-378, 406-409: FOLLOWING, no crossing, more directions to try
FollowTurn ==
    /\ InLoop /\ ~bStart /\ inRange /\ ~Cont
    /\ nexd[direc] # dt
    /\ Probe
    /\ direc' = nexd[direc]
    /\ x1' = X2 /\ y1' = Y2
    /\ UNCHANGED <<pc, bExit, bStart, bEdg, dt, d0, x0, y0, curveVars>>

\* a closed curve without the copy of its first point
ClosedCurveNoCopy ==
    [contVec EXCEPT !.stCW = Def(CLOSED),
                    !.finCW = Def(IF ccwknt < 0 THEN COUNTERCLOCKWISE
                                  ELSE CLOCKWISE)]

\* the curve about to be pushed as closed (383-391)
ClosedCurve ==
    [contVec EXCEPT !.x = Append(@, At(contVec.x, 0)),
                    !.y = Append(@, At(contVec.y, 0)),
                    !.stCW = Def(CLOSED),
                    !.finCW = Def(IF ccwknt < 0 THEN COUNTERCLOCKWISE
                                  ELSE CLOCKWISE)]

\* 396-405, 429-439: a fresh curve, and the scan resumed after the anchor
Resume ==
    /\ vecTop' = 0
    /\ contVec' = [NewContourVector EXCEPT !.finCW = Def(CLOSED)]
    /\ direc' = d0
    /\ x1' = x0 + xdirec[d0]
    /\ y1' = y0 + ydirec[d0]
    /\ bStart' = TRUE

\* a closure that keeps the winding sum of the closed curve
CloseCurveKeepCount ==
    /\ InLoop /\ ~bStart /\ inRange /\ ~Cont
    /\ nexd[direc] = dt
    /\ Probe
    /\ contourVectors' = Append(contourVectors, ClosedCurve)
    /\ kinds' = Append(kinds, [kind |-> "closed", inRange |-> bInRange',
                                num |-> contourNum])
    /\ ccwknt' = ccwknt
    /\ Resume
    /\ UNCHANGED <<pc, bExit, bEdg, dt, d0, x0, y0>>

\* 378-405: FOLLOWING, back at the direction of entry: the curve is closed
CloseCurve ==
    /\ InLoop /\ ~bStart /\ inRange /\ ~Cont
    /\ nexd[direc] = dt
    /\ Probe
    /\ contourVectors' = Append(contourVectors, ClosedCurve)
    /\ kinds' = Append(kinds, [kind |-> "closed", inRange |-> bInRange',
                                num |-> contourNum])
    /\ ccwknt' = 0
    /\ Resume
    /\ UNCHANGED <<pc, bExit, bEdg, dt, d0, x0, y0>>

\* the outcomes of s[i] < s[j]; false when an element is undefined
JsLess(s, i, j) ==
    IF i >= 0 /\ i < Len(s) /\ j >= 0 /\ j < Len(s)
    THEN FloatLess[At(s, i), At(s, j)]
    ELSE {FALSE}

\* 418-423: the outcomes of the comparison of the last two points
Backward ==
    IF lmb = HORIZONTAL
    THEN JsLess(contVec.x, vecTop - 1, vecTop - 2)
    ELSE JsLess(contVec.y, vecTop - 1, vecTop - 2)

\* 425: the edges FindEdge can return for the last point of the curve
FinEdges ==
    FindEdge(At(contVec.x, vecTop - 1), At(contVec.y, vecTop - 1),
             nf - 1, mf - 1)

\* the curve about to be pushed as open (418-425); bound and lmb are those
\* of the last probe that was in range
OpenCurve(back, edg) ==
    LET b == bounds[bound[1]][bound[2]]
    IN  [contVec EXCEPT
           !.finCW = Def(IF lmb = HORIZONTAL
                         THEN (IF back THEN -b.CW0 ELSE b.CW0)
                         ELSE (IF back THEN -b.CW1 ELSE b.CW1)),
           !.finEdge = Def(edg)]

\* an exit that drops the open curve instead of pushing it
ExitCurveDropped ==
    /\ InLoop /\ ~bStart /\ ~inRange
    /\ Probe
    /\ UNCHANGED <<contourVectors, kinds>>
    /\ ccwknt' = ccwknt
    /\ Resume
    /\ UNCHANGED <<pc, bExit, bEdg, dt, d0, x0, y0>>

\* 411-440: FOLLOWING, the probe left the grid: the curve is open
ExitCurve ==
    /\ InLoop /\ ~bStart /\ ~inRange
    /\ Probe
    /\ \E back \in Backward, edg \in FinEdges :
          contourVectors' = Append(contourVectors, OpenCurve(back, edg))
    /\ kinds' = Append(kinds, [kind |-> "open", inRange |-> bInRange',
                                num |-> contourNum])
    /\ ccwknt' = ccwknt
    /\ Resume
    /\ UNCHANGED <<pc, bExit, bEdg, dt, d0, x0, y0>>

Next ==
    \/ setupContours
    \/ SetupExample
    \/ threadContour
    \/ StartCurve
    \/ ScanStep
    \/ ScanBorder
    \/ ScanSweep
    \/ FollowCrossing
    \/ FollowTurn
    \/ CloseCurve
    \/ ExitCurve

Spec == Init /\ [][Next]_vars

\* one iteration of the while loop of threadContour
Iterate ==
    \/ StartCurve
    \/ ScanStep
    \/ ScanBorder
    \/ ScanSweep
    \/ FollowCrossing
    \/ FollowTurn
    \/ CloseCurve
    \/ ExitCurve

\* The loop is sequential code: once entered it keeps iterating while
\* !bExit, so an enabled iteration is eventually taken.
FairSpec == Spec /\ WF_vars(Iterate)

\* ------------------------------------------------------------------------
\* threadContour called directly, with any level index and level value
\* ------------------------------------------------------------------------
\* at most MaxCalls calls, with level indices 0 .. MaxDirectNum
MaxCalls == 1
MaxDirectNum == 2

\* the level values passed with a level index that contLevels does not hold
FreeLevels == {0, MaxSample + 1}

\* threadContour(array, num, level) for any num; the level is contLevels[num]
\* when the level set holds it, any value otherwise
threadDirect ==
    /\ pc = "ready"
    /\ Len(calls) < MaxCalls
    /\ \E num \in 0..MaxDirectNum :
         \E level \in (IF num < Len(contLevels) THEN {At(contLevels, num)}
                       ELSE FreeLevels) :
            Enter(num, level)
    /\ UNCHANGED nextNum

\* setupContours(arr) for the 2 x 2 grids
setupSmall == \E arr \in SmallGrids : SetupWith(arr, SETUP_INTERVAL)

\* a grid whose one high corner gives three levels
CornerGrid == <<<<0, 0>>, <<0, 5>>>>

\* setupContours(CornerGrid) on a new object
setupCorner == SetupWith(CornerGrid, SETUP_INTERVAL)

NextDirect ==
    \/ setupSmall
    \/ setupCorner
    \/ threadDirect
    \/ StartCurve
    \/ ScanStep
    \/ ScanBorder
    \/ ScanSweep
    \/ FollowCrossing
    \/ FollowTurn
    \/ CloseCurve
    \/ ExitCurve

SpecDirect == Init /\ [][NextDirect]_vars

\* ------------------------------------------------------------------------
\* setupContours called again on the same object
\* ------------------------------------------------------------------------
\* at most MaxSetups setups of one object
MaxSetups == 2

\* the grids of a later setup: the same grid, or the saddle
SaddleGrid == <<<<0, 5>>, <<5, 0>>>>
AgainGrids == {array, SaddleGrid}

\* allocBounds(arr); setContLevels(arr, contInterval); initFlags(arr) on an
\* object that was set up before: bounds is allocated anew, contLevels and
\* contourVectors keep what they hold
SetupAgainWith(arr, contInterval) ==
    /\ pc = "ready"
    /\ Len(setups) < MaxSetups
    /\ array' = arr
    /\ mf' = Rows(arr) /\ nf' = Cols(arr)
    /\ minZ' = MinZ(arr) /\ maxZ' = MaxZ(arr)
    /\ nCont' = NCont(MinZ(arr), MaxZ(arr), contInterval)
    /\ contLevels' = contLevels \o NewLevels(MinZ(arr), MaxZ(arr), contInterval)
    /\ delta' = Delta(MinZ(arr), MaxZ(arr))
    /\ bounds' = InitFlags(arr, contLevels')
    /\ initBounds' = bounds'
    /\ nextNum' = 0
    /\ setups' = Append(setups, [arr |-> arr, interval |-> contInterval,
                                  levels |-> Len(contLevels),
                                  curves |-> Len(contourVectors),
                                  calls |-> Len(calls)])
    /\ UNCHANGED <<pc, params, probeVars, navVars, curveVars, hits, probed,
                   visited, vecBase, calls, direct, revision>>

\* setupContours(arr) on an object that was set up before
setupAgain == \E arr \in AgainGrids : SetupAgainWith(arr, SETUP_INTERVAL)

NextAgain ==
    \/ setupSmall
    \/ setupCorner
    \/ setupAgain
    \/ threadContour
    \/ StartCurve
    \/ ScanStep
    \/ ScanBorder
    \/ ScanSweep
    \/ FollowCrossing
    \/ FollowTurn
    \/ CloseCurve
    \/ ExitCurve

SpecAgain == Init /\ [][NextAgain]_vars

\* ------------------------------------------------------------------------
\* setupContours called with a grid that is not a rectangle of 2 x 2 or more
\* ------------------------------------------------------------------------
\* a grid of one row, a grid of one column, and the grids of two rows whose
\* second row is longer than the first
SlimGrids ==
    UNION {GridsOver(1, c, BinarySamples) : c \in 1..MaxCols}
    \cup UNION {GridsOver(r, 1, BinarySamples) : r \in 1..MaxRows}
RaggedGrids ==
    {<<a, b>> : a \in [1..2 -> BinarySamples], b \in [1..3 -> BinarySamples]}
InvalidGrids == SlimGrids \cup RaggedGrids

\* setupContours(arr): no method of the class inspects the shape of arr
setupInvalid == \E arr \in InvalidGrids : SetupWith(arr, SETUP_INTERVAL)

NextInvalid ==
    \/ setupInvalid
    \/ setupSmall
    \/ threadContour
    \/ StartCurve
    \/ ScanStep
    \/ ScanBorder
    \/ ScanSweep
    \/ FollowCrossing
    \/ FollowTurn
    \/ CloseCurve
    \/ ExitCurve

SpecInvalid == Init /\ [][NextInvalid]_vars

\* ------------------------------------------------------------------------
\* setContLevels called with any interval
\* ------------------------------------------------------------------------
\* the intervals tried: -MaxInterval .. MaxInterval
MaxInterval == 2
Intervals == (-MaxInterval)..MaxInterval

\* the loop of setContLevels is followed for at most MaxPushed levels
MaxPushed == 3

\* allocBounds(arr); setContLevels(arr, contInterval) on a new object.  With
\* nCont a number, or NaN, the loop of setContLevels ends and the method
\* returns (pc = "levelled"); with nCont = Infinity the loop is entered
\* (pc = "levels") and PushLevel is its body.
SetContLevelsWith(arr, contInterval) ==
    /\ pc = "new"
    /\ array' = arr
    /\ mf' = Rows(arr) /\ nf' = Cols(arr)
    /\ minZ' = MinZ(arr) /\ maxZ' = MaxZ(arr)
    /\ bounds' = [i \in 0..(Rows(arr) - 1) |->
                    [j \in 0..(Cols(arr) - 1) |-> NewContourLimit]]
    /\ nCont' = NCont(MinZ(arr), MaxZ(arr), contInterval)
    /\ IF contInterval # 0
         THEN /\ pc' = "levelled"
              /\ contLevels' =
                     contLevels \o NewLevels(MinZ(arr), MaxZ(arr), contInterval)
              /\ delta' = Delta(MinZ(arr), MaxZ(arr))
         ELSE IF MaxZ(arr) > MinZ(arr)
         THEN /\ pc' = "levels"
              /\ UNCHANGED <<contLevels, delta>>
         ELSE /\ pc' = "levelled"
              /\ delta' = Delta(MinZ(arr), MaxZ(arr))
              /\ UNCHANGED contLevels
    /\ setups' = Append(setups, [arr |-> arr, interval |-> contInterval,
                                  levels |-> Len(contLevels),
                                  curves |-> Len(contourVectors),
                                  calls |-> Len(calls)])
    /\ UNCHANGED <<params, probeVars, navVars, curveVars, history, direct, revision>>

\* setContLevels(arr, contInterval)
setContLevels ==
    \E arr \in SmallGrids, contInterval \in Intervals :
        SetContLevelsWith(arr, contInterval)

\* "for (let i = 0; i < this.nCont; i++) this.contLevels.push(minZ + i *
\* contInterval)" with nCont = Infinity and contInterval = 0
PushLevel ==
    /\ pc = "levels"
    /\ Len(contLevels) < MaxPushed
    /\ contLevels' = Append(contLevels, minZ)
    /\ UNCHANGED <<pc, array, mf, nf, minZ, maxZ, nCont, delta, bounds, params,
                   probeVars, navVars, curveVars, history, setups, direct, revision>>

NextInterval ==
    \/ setContLevels
    \/ PushLevel

SpecInterval == Init /\ [][NextInterval]_vars

\* ------------------------------------------------------------------------
\* sessions on grids with closed curves
\* ------------------------------------------------------------------------
\* a peak at column 2 of the middle row, high corners on the left
NestedPeakGrid == <<<<5, 0, 0, 0>>, <<0, 0, 5, 0>>, <<5, 0, 0, 0>>>>

\* a pit and a peak in the centre of a 3 x 3 grid
PitGrid == <<<<5, 5, 5>>, <<5, 0, 5>>, <<5, 5, 5>>>>
CentrePeakGrid == <<<<0, 0, 0>>, <<0, 5, 0>>, <<0, 0, 0>>>>

ClosedCurveGrids == {NestedPeakGrid, PitGrid, CentrePeakGrid}

\* setupContours(arr)
setupClosed == \E arr \in ClosedCurveGrids : SetupWith(arr, SETUP_INTERVAL)

NextClosed ==
    \/ setupClosed
    \/ threadContour
    \/ StartCurve
    \/ ScanStep
    \/ ScanBorder
    \/ ScanSweep
    \/ FollowCrossing
    \/ FollowTurn
    \/ CloseCurve
    \/ ExitCurve

SpecClosed == Init /\ [][NextClosed]_vars

\* ------------------------------------------------------------------------
\* sessions on grids with more than MAX_LOOP_LIMIT levels
\* ------------------------------------------------------------------------
\* one corner 514 above the others: 257 levels, the limbs to the corner have
\* the range 1 .. 256
SteepGrid == <<<<0, 0>>, <<0, 514>>>>

\* nine vertices, one corner 514 above the others
LoopGrid == <<<<514, 0, 0>>, <<0, 0, 0>>, <<0, 0, 0>>>>

SentinelGrids == {SteepGrid, LoopGrid}

\* setupContours(arr)
setupSentinel == \E arr \in SentinelGrids : SetupWith(arr, SETUP_INTERVAL)

\* a curve is followed for at most MaxPoints points
MaxPoints == 16

\* threadContour(array, i, contLevels[i]) once more, for the level index the
\* last call traced, with no setup in between
threadAgain ==
    /\ pc = "ready"
    /\ Len(calls) > 0 /\ Len(calls) = nextNum
    /\ Enter(contourNum, contourLevel)
    /\ UNCHANGED nextNum

NextSentinel ==
    \/ setupSentinel
    \/ setupClosed
    \/ (Len(calls) = nextNum /\ threadContour)
    \/ threadAgain
    \/ (vecTop < MaxPoints /\ Iterate)

SpecSentinel == Init /\ [][NextSentinel]_vars

\* ------------------------------------------------------------------------
\* ascending sessions on grids with 256 and 257 levels: every level index
\* is traced once, in order, as the caller's loop does
\* ------------------------------------------------------------------------
\* four vertices with 256 levels (every limb of the peak ends at index 255),
\* nine vertices with 257 levels and a notch in the bottom row, and LoopGrid
LongGrids ==
    {<<<<0, 0>>, <<0, 511>>>>,
     <<<<510, 0, 510>>, <<514, 510, 514>>, <<514, 514, 514>>>>,
     LoopGrid}

\* setupContours(arr)
setupLong == \E arr \in LongGrids : SetupWith(arr, SETUP_INTERVAL)

NextLong ==
    \/ setupLong
    \/ setupClosed
    \/ threadContour
    \/ (vecTop < MaxPoints /\ Iterate)

SpecLong == Init /\ [][NextLong]_vars

\* the loop of threadContour keeps running while it can
FairSpecLong == SpecLong /\ WF_vars(vecTop < MaxPoints /\ Iterate)

\* ------------------------------------------------------------------------
\* sessions on grids with a wide range of samples
\* ------------------------------------------------------------------------
\* the interval passed to setContLevels for these grids, which keeps the
\* level set short
WideInterval == 10000

\* the 2 x 2 grids over three samples 10000 and 20000 apart, and a peak
\* among nine vertices: maxZ - minZ is 30000 and delta 3 on most of them
WideGrids ==
    GridsOver(2, 2, {0, WideInterval, 3 * WideInterval})
    \cup {<<<<0, 0, 0>>, <<0, 3 * WideInterval, 0>>, <<0, 0, 0>>>>}

\* allocBounds(arr); setContLevels(arr, WideInterval); initFlags(arr)
setupWide == \E arr \in WideGrids : SetupWith(arr, WideInterval)

NextWide ==
    \/ setupWide
    \/ threadContour
    \/ StartCurve
    \/ ScanStep
    \/ ScanBorder
    \/ ScanSweep
    \/ FollowCrossing
    \/ FollowTurn
    \/ CloseCurve
    \/ ExitCurve

SpecWide == Init /\ [][NextWide]_vars

\* ------------------------------------------------------------------------
\* sessions run by the revision of the class, src/unnamed/part_004
\* ------------------------------------------------------------------------
\* a Contour object of the revision as constructed
InitRevised == Constructed /\ args = <<>> /\ result = <<>> /\ revision = TRUE

\* four vertices with one sample within delta (3) below the level 10000
NearLevelGrid == <<<<0, 9998>>, <<3 * WideInterval, 3 * WideInterval>>>>

\* allocBounds(arr); setContLevels(arr, WideInterval); initFlags(arr)
setupNearLevel == SetupWith(NearLevelGrid, WideInterval)

NextRevised ==
    \/ setupSmall
    \/ setupCorner
    \/ setupNearLevel
    \/ threadContour
    \/ (vecTop < MaxPoints /\ Iterate)
    \/ ThrowTypeError

SpecRevised == InitRevised /\ [][NextRevised]_vars

\* ------------------------------------------------------------------------
\* getTB called on its own
\* ------------------------------------------------------------------------
\* level lists of 1 .. MaxLevels levels over 0 .. MaxLevelValue
MaxLevels == 3
MaxLevelValue == 4

\* the strictly ascending level lists
AscendingLists ==
    {l \in UNION {[1..n -> 0..MaxLevelValue] : n \in 1..MaxLevels} :
        \A i \in 1..(Len(l) - 1) : l[i] < l[i + 1]}

\* a level list that begins at the minimum sample, and two samples
GetTBArgs ==
    {a \in [levels : AscendingLists, v : 0..(MaxLevelValue + 1),
            u : 0..(MaxLevelValue + 1)] :
        a.levels[1] <= a.v /\ a.levels[1] <= a.u}

InitGetTB ==
    /\ Constructed
    /\ args \in {Def(a) : a \in GetTBArgs}
    /\ result = <<>>
    /\ revision = FALSE

\* this.getTB(v, u, uplim) as initFlags calls it, uplim the last level index
CallGetTB ==
    /\ args # <<>> /\ result = <<>>
    /\ result' = Def(getTB(args[1].levels, args[1].v, args[1].u,
                           Len(args[1].levels) - 1))
    /\ UNCHANGED <<pc, fields, bounds, params, probeVars, navVars, curveVars,
                   history, setups, args, revision>>

SpecGetTB == InitGetTB /\ [][CallGetTB]_vars

\* ------------------------------------------------------------------------
\* Vocabulary of the claims
\* ------------------------------------------------------------------------
\* the limbs of the grid: <<limb, i, j>> is the limb of vertex (i, j),
\* rightward (HORIZONTAL) or upward (VERTICAL)
Edges ==
    {<<HORIZONTAL, i, j>> : i \in 0..(mf - 1), j \in 0..(nf - 2)}
    \cup {<<VERTICAL, i, j>> : i \in 0..(mf - 2), j \in 0..(nf - 1)}

\* the sample at the near and at the far end of a limb
NearSample(e) == Sample(array, e[2], e[3])
FarSample(e) ==
    IF e[1] = HORIZONTAL THEN Sample(array, e[2], e[3] + 1)
    ELSE Sample(array, e[2] + 1, e[3])

\* the level crosses the limb: min(u, v) < level <= max(u, v)
Crosses(e, level) ==
    /\ Min(NearSample(e), FarSample(e)) < level
    /\ level <= Max(NearSample(e), FarSample(e))

\* bot and top of a limb in a table
BotOf(tbl, e) ==
    IF e[1] = HORIZONTAL THEN tbl[e[2]][e[3]].bot0 ELSE tbl[e[2]][e[3]].bot1
TopOf(tbl, e) ==
    IF e[1] = HORIZONTAL THEN tbl[e[2]][e[3]].top0 ELSE tbl[e[2]][e[3]].top1

\* the limb of a recorded hit
EdgeOfHit(h) == <<h.lmb, h.y, h.x>>

\* how many points of this trace lie on limb e
HitsOn(e) == Cardinality({i \in 1..Len(hits) : EdgeOfHit(hits[i]) = e})

\* the limbs whose range as computed by initFlags contains level index k
InRangeEdges(k) ==
    {e \in Edges : BotOf(initBounds, e) <= k /\ k <= TopOf(initBounds, e)}

\* threadContour has been entered
Called == Len(calls) > 0

\* a trace has returned
TraceOver == pc = "ready" /\ Len(calls) > 0

\* the curves pushed by the current (or the last) trace
TraceCurves == {i \in 1..Len(contourVectors) : i > vecBase}

\* C1: every point interpolated while tracing level index k lies on a limb
\* whose endpoint samples u, v satisfy min(u,v) < contLevels[k] <= max(u,v);
\* a limb that no level crosses (bot > top after initFlags) yields no point.
C1_PointsOnCrossedEdges ==
    Called =>
        \A i \in 1..Len(hits) :
            /\ Crosses(EdgeOfHit(hits[i]), contourLevel)
            /\ BotOf(initBounds, EdgeOfHit(hits[i]))
                 <= TopOf(initBounds, EdgeOfHit(hits[i]))

\* C2: in the caller's ascending session, when the trace of level index k
\* returns, every limb whose range as computed by initFlags contains k has
\* yielded exactly one point in that trace.
C2_EveryCrossingOnce ==
    TraceOver => \A e \in InRangeEdges(contourNum) : HitsOn(e) = 1

\* C3: the number of points interpolated in the trace of level index k never
\* exceeds the number of limbs whose precomputed range contains k.
C3_NoMorePointsThanEdges ==
    Called => Len(hits) <= Cardinality(InRangeEdges(contourNum))

FirstPoint(c) == <<c.x[1], c.y[1]>>
LastPoint(c) == <<c.x[Len(c.x)], c.y[Len(c.y)]>>

\* C5: every curve pushed as closed ends on its first point, and every
\* pushed curve is either such a closed curve or an open curve pushed when
\* the probe had left the grid.
C5_ClosedOrOpen ==
    /\ Len(kinds) = Len(contourVectors)
    /\ \A i \in 1..Len(contourVectors) :
         \/ /\ kinds[i].kind = "closed"
            /\ Len(contourVectors[i].x) >= 2
            /\ LastPoint(contourVectors[i]) = FirstPoint(contourVectors[i])
         \/ /\ kinds[i].kind = "open"
            /\ ~kinds[i].inRange

\* a closed curve of five points or more and an open curve have been pushed
C5_Witness ==
    /\ \E i \in 1..Len(contourVectors) :
         /\ kinds[i].kind = "closed"
         /\ Len(contourVectors[i].x) >= 5
         /\ LastPoint(contourVectors[i]) = FirstPoint(contourVectors[i])
    /\ \E i \in 1..Len(contourVectors) :
         kinds[i].kind = "open" /\ ~kinds[i].inRange

\* the curves of the trace of the level 5, once that trace has returned
LevelFiveOver == TraceOver /\ contourLevel = 5

\* the limbs incident to the centre vertex (1, 1) of a 3 x 3 grid
CentreEdges ==
    {<<HORIZONTAL, 1, 0>>, <<HORIZONTAL, 1, 1>>,
     <<VERTICAL, 0, 1>>, <<VERTICAL, 1, 1>>}

\* C6: for the grid [[0,0,0],[0,10,0],[0,0,0]] with 5 in the level set, the
\* trace of the level 5 pushes exactly one curve, that curve is closed, and
\* its points lie on the four limbs incident to the centre vertex.
C6_PeakOneClosedCurve ==
    array = PeakGrid /\ LevelFiveOver =>
        /\ Cardinality(TraceCurves) = 1
        /\ \A i \in TraceCurves : kinds[i].kind = "closed"
        /\ \A i \in 1..Len(hits) : EdgeOfHit(hits[i]) \in CentreEdges

\* the curve starts on the bottom or the top row of the grid
StartsOnRow(c) == c.y[1] = RInt(0) \/ c.y[1] = RInt(mf - 1)

\* C7: for a grid whose every row is [0,5,10] with 5 in the level set, the
\* trace of the level 5 pushes exactly one curve, that curve is open, it
\* starts on the bottom or top row and ends on the other, and neither end
\* is classified as the left or the right edge.
C7_RampOneOpenCurve ==
    array \in RampGrids /\ LevelFiveOver =>
        /\ Cardinality(TraceCurves) = 1
        /\ \A i \in TraceCurves :
             LET c == contourVectors[i]
             IN  /\ kinds[i].kind = "open"
                 /\ StartsOnRow(c)
                 /\ LastPoint(c)[2] \in {RInt(0), RInt(mf - 1)}
                 /\ LastPoint(c)[2] # c.y[1]
                 /\ c.stEdge \in {Def(BOTTOM_EDGE), Def(TOP_EDGE)}
                 /\ c.finEdge \in {Def(BOTTOM_EDGE), Def(TOP_EDGE)}

\* all samples of the grid are equal
Flat == Cardinality(SamplesOf(array)) = 1

\* C8: for a flat grid, threadContour with any level index and any level
\* value different from the sample value pushes no curve.
C8_FlatNoCurves ==
    (Called /\ Flat /\ \A i \in 1..Len(calls) : calls[i][2] # minZ) =>
        contourVectors = <<>>

\* the points of the curves a trace pushed, in order, without the point
\* that closes a closed curve
RECURSIVE PushedPoints(_, _)
PushedPoints(i, n) ==
    IF i > n THEN <<>>
    ELSE LET c == contourVectors[i]
             m == IF kinds[i].kind = "closed" THEN Len(c.x) - 1 ELSE Len(c.x)
         IN  [j \in 1..m |-> <<c.x[j], c.y[j]>>]
             \o PushedPoints(i + 1, n)

\* the points a trace has interpolated, in order
HitPoints == [j \in 1..Len(hits) |-> <<hits[j].px, hits[j].py>>]

\* the points of the curve under construction
ActivePoints == [j \in 1..Len(contVec.x) |-> <<contVec.x[j], contVec.y[j]>>]

\* C9: a curve is pushed once, when it closes or exits, and no point is
\* lost: while SCANNING the active curve is empty, the points interpolated
\* so far are exactly those of the curves pushed so far followed by those
\* of the active curve, and no pushed curve is empty.
C9_NoPointLost ==
    Called =>
        /\ bStart => vecTop = 0 /\ contVec.x = <<>> /\ contVec.y = <<>>
        /\ vecTop = Len(contVec.x)
        /\ HitPoints
             = PushedPoints(vecBase + 1, Len(contourVectors)) \o ActivePoints
        /\ \A i \in TraceCurves : Len(contourVectors[i].x) >= 1

\* a trace has returned having pushed two or more curves that hold all the
\* points it interpolated
C9_Witness ==
    /\ TraceOver
    /\ Cardinality(TraceCurves) >= 2
    /\ Len(hits) >= 4
    /\ HitPoints = PushedPoints(vecBase + 1, Len(contourVectors))

\* C10: every point of every pushed curve satisfies 0 <= x <= nf - 1 and
\* 0 <= y <= mf - 1.
C10_PointsInGrid ==
    \A i \in 1..Len(contourVectors) :
        \A j \in 1..Len(contourVectors[i].x) :
            /\ RLeq[RInt(0), contourVectors[i].x[j]]
            /\ RLeq[contourVectors[i].x[j], RInt(nf - 1)]
            /\ RLeq[RInt(0), contourVectors[i].y[j]]
            /\ RLeq[contourVectors[i].y[j], RInt(mf - 1)]

\* the level indices of a list whose value is at most hi, and above lo
IndicesUpTo(levels, hi) == {i \in 0..(Len(levels) - 1) : At(levels, i) <= hi}
IndicesAbove(levels, lo) == {i \in 0..(Len(levels) - 1) : At(levels, i) > lo}
Greatest(S) == CHOOSE m \in S : \A i \in S : i <= m
Least(S) == CHOOSE m \in S : \A i \in S : m <= i

\* C11: for a strictly ascending level list that begins at the minimum
\* sample and two samples u, v, getTB returns t = the largest level index
\* whose value is <= max(u,v) and b = the smallest level index whose value is
\* > min(u,v), or t + 1 when no level lies in (min(u,v), max(u,v)]; getTB
\* with u and v swapped returns the same.
C11_GetTBRange ==
    result # <<>> =>
        LET a == args[1]
            r == result[1]
            upTo == IndicesUpTo(a.levels, Max(a.u, a.v))
            above == IndicesAbove(a.levels, Min(a.u, a.v))
        IN  /\ r.t = Greatest(upTo)
            /\ r.b = (IF upTo \cap above # {} THEN Least(above) ELSE r.t + 1)
            /\ r = getTB(a.levels, a.u, a.v, Len(a.levels) - 1)

\* getTB has returned a range of two or more levels for v < u
C11_Witness ==
    /\ result # <<>>
    /\ args[1].v < args[1].u
    /\ result[1].b < result[1].t

\* the slope sign of a limb in a table
CWOf(tbl, e) ==
    IF e[1] = HORIZONTAL THEN tbl[e[2]][e[3]].CW0 ELSE tbl[e[2]][e[3]].CW1

\* setup has run
SetUp == pc # "new"

\* C12 as stated: after initFlags the slope sign of the rightward and of the
\* upward limb of every vertex is +1 exactly when the far sample is greater
\* than the sample at the vertex, and -1 otherwise.
C12_SignFollowsIncrease ==
    SetUp =>
        \A e \in Edges :
            CWOf(bounds, e) = (IF FarSample(e) > NearSample(e) THEN CLOCKWISE
                               ELSE COUNTERCLOCKWISE)

\* C12 as amended: after initFlags the slope sign of the rightward limb is -1
\* exactly when the far sample is smaller than the sample at the vertex, and
\* that of the upward limb is -1 exactly when the far sample is greater; it
\* is +1 otherwise (the higher sample lies to the right of a vector that
\* crosses the limb in the increasing direction, or the samples are equal).
C12_SignHigherToRight ==
    SetUp =>
        \A e \in Edges :
            CWOf(bounds, e) =
                (IF e[1] = HORIZONTAL
                 THEN (IF FarSample(e) < NearSample(e) THEN COUNTERCLOCKWISE
                       ELSE CLOCKWISE)
                 ELSE (IF FarSample(e) > NearSample(e) THEN COUNTERCLOCKWISE
                       ELSE CLOCKWISE))

\* a table with a rising and a falling limb of each kind
C12_Witness ==
    /\ SetUp
    /\ \A limb \in {HORIZONTAL, VERTICAL} :
         /\ \E e \in Edges : e[1] = limb /\ FarSample(e) > NearSample(e)
         /\ \E e \in Edges : e[1] = limb /\ FarSample(e) < NearSample(e)
    /\ \A e \in Edges : CWOf(bounds, e) \in {CLOCKWISE, COUNTERCLOCKWISE}

\* the most recent setup
LastSetup == setups[Len(setups)]

\* a sequence of numbers is strictly increasing
StrictlyIncreasing(l) == \A i \in 1..(Len(l) - 1) : l[i] < l[i + 1]

\* C13: after a setup on a grid with extrema minZ, maxZ and a positive
\* interval, contLevels has exactly nCont = ceil((maxZ - minZ) / interval)
\* entries, entry i is minZ + i * interval, and the list is strictly
\* increasing.
C13_LevelList ==
    SetUp =>
        /\ nCont = CeilDiv(maxZ - minZ, LastSetup.interval)
        /\ Len(contLevels) = nCont
        /\ \A i \in 0..(Len(contLevels) - 1) :
              At(contLevels, i) = minZ + i * LastSetup.interval
        /\ StrictlyIncreasing(contLevels)

\* C14: after any sequence of setups of one object, contLevels is exactly
\* the level list derived from the grid of the most recent setup, whatever
\* the earlier setups were.
C14_LevelListRebuilt ==
    SetUp =>
        contLevels = NewLevels(MinZ(LastSetup.arr), MaxZ(LastSetup.arr),
                               LastSetup.interval)

\* the grid has fewer than 2 rows or columns, or rows of unequal length
InvalidGrid(arr) ==
    \/ Len(arr) < 2
    \/ Len(arr[1]) < 2
    \/ \E i \in 1..Len(arr) : Len(arr[i]) # Len(arr[1])

\* C15: a setup with a grid of fewer than 2 rows, fewer than 2 columns or
\* rows of unequal length fails: the object is left in the failed state, no
\* limits table is left, and no trace begins.
C15_InvalidGridRejected ==
    (SetUp /\ InvalidGrid(array)) =>
        /\ pc = "failed"
        /\ bounds = <<>>
        /\ calls = <<>>


\* C16: setContLevels called with an interval of 0 or less fails with
\* InvalidInput: it neither runs its loop without end nor returns with an
\* empty level list.
C16_BadIntervalRejected ==
    (setups # <<>> /\ LastSetup.interval <= 0) => pc = "failed"

\* the calls of threadContour made in the session of setup s
SessionCalls(s) ==
    {c \in 1..Len(calls) :
        /\ c > setups[s].calls
        /\ s < Len(setups) => c <= setups[s + 1].calls}

\* the curves pushed in the session of setup s
SessionCurves(s) ==
    {i \in 1..Len(contourVectors) :
        /\ i > setups[s].curves
        /\ s < Len(setups) => i <= setups[s + 1].curves}

\* the trace of level index k in the session of setup s has returned
Traced(s, k) ==
    \E c \in SessionCalls(s) :
        /\ calls[c][1] = k
        /\ c < Len(calls) \/ pc = "ready"

\* the point lists of the curves in the set is of indices, in the order pushed
RECURSIVE PointLists(_)
PointLists(is) ==
    IF is = {} THEN <<>>
    ELSE LET i == CHOOSE m \in is : \A n \in is : m <= n
         IN  <<<<contourVectors[i].x, contourVectors[i].y>>>>
                 \o PointLists(is \ {i})

\* the curves of level index k in the session of setup s, as point lists
LevelCurves(s, k) ==
    PointLists({i \in SessionCurves(s) : kinds[i].num = k})

\* C17: when the same grid is set up twice on one object and the same level
\* index is traced after each setup, the two traces emit the same curves:
\* the same points in the same order.
C17_SameCurvesAfterRebuild ==
    \A s \in 1..Len(setups), r \in 1..Len(setups) :
        (s < r /\ setups[s].arr = setups[r].arr) =>
            \A k \in 0..(nCont - 1) :
                (Traced(s, k) /\ Traced(r, k)) =>
                    LevelCurves(s, k) = LevelCurves(r, k)

\* the closed curves pushed so far
ClosedCurves == {i \in 1..Len(contourVectors) : kinds[i].kind = "closed"}

\* the level a pushed curve was traced at
LevelOf(i) == At(contLevels, kinds[i].num)

\* the segment from point i to point i + 1 of curve c is met by the ray that
\* leaves the vertex (px, py) in the direction of increasing x
RayMeets(c, i, px, py) ==
    LET xa == c.x[i]
        ya == c.y[i]
        xb == c.x[i + 1]
        yb == c.y[i + 1]
    IN  /\ RLess[RInt(py), ya] # RLess[RInt(py), yb]
        /\ RLess[RInt(px),
                 RAdd[xa, RDiv[RMul[RSub[RInt(py), ya], RSub[xb, xa]],
                               RSub[yb, ya]]]]

\* the vertex (px, py) lies inside the closed curve c (even-odd rule)
Inside(c, px, py) ==
    Cardinality({i \in 1..(Len(c.x) - 1) : RayMeets(c, i, px, py)}) % 2 = 1

\* the samples of the vertices that the closed curve c encircles
Encircled(c) ==
    {Sample(array, py, px) : <<px, py>> \in
        {p \in (0..(nf - 1)) \X (0..(mf - 1)) : Inside(c, p[1], p[2])}}

\* twice the signed area of the point sequence of c (shoelace formula)
RECURSIVE Shoelace(_, _)
Shoelace(c, i) ==
    IF i >= Len(c.x) THEN RInt(0)
    ELSE RAdd[RSub[RMul[c.x[i], c.y[i + 1]], RMul[c.x[i + 1], c.y[i]]],
              Shoelace(c, i + 1)]

\* the sign of the signed area: -1, 0 or 1
AreaSign(c) ==
    LET a == Shoelace(c, 1)
    IN  IF a.n < 0 THEN -1 ELSE IF a.n > 0 THEN 1 ELSE 0

\* C18: a closed curve that encircles only samples above its level (a peak)
\* has finCW = CLOCKWISE, and one that encircles only samples below its
\* level (a pit) has finCW = COUNTERCLOCKWISE.
C18_ClosedOrientation ==
    \A i \in ClosedCurves :
        LET c == contourVectors[i]
            in == Encircled(c)
        IN  /\ (in # {} /\ \A z \in in : z > LevelOf(i))
                  => c.finCW = Def(CLOCKWISE)
            /\ (in # {} /\ \A z \in in : z < LevelOf(i))
                  => c.finCW = Def(COUNTERCLOCKWISE)

\* C19: any two closed curves whose shoelace areas have the same sign (not
\* zero) have the same finCW.
C19_OrientationFollowsArea ==
    \A i \in ClosedCurves, j \in ClosedCurves :
        (AreaSign(contourVectors[i]) = AreaSign(contourVectors[j])
         /\ AreaSign(contourVectors[i]) # 0)
            => contourVectors[i].finCW = contourVectors[j].finCW

\* the limb between two neighbouring vertices (xa, ya) and (xb, yb)
LimbBetween(xa, ya, xb, yb) ==
    IF xa = xb THEN <<VERTICAL, Min(ya, yb), xa>>
    ELSE <<HORIZONTAL, ya, Min(xa, xb)>>

\* SCANNING, and the neighbour the probe will look at is in range and the
\* limb towards it has bot = contourNum
ScanFindsCrossing == InLoop /\ bStart /\ inRange /\ Cont

\* C20: a step taken in SCANNING with the probed neighbour in range and the
\* limb's bot equal to contourNum ends with the anchor (x0, y0, d0) at the
\* old (x1, y1, direc), the cursor at the probed neighbour (x2, y2), dt at
\* the old direc, direc at nexd[old direc], the state FOLLOWING, the point
\* interpolated on that limb as the only point of the curve, and the limb's
\* bot no longer equal to contourNum.
C20_ScanToFollow ==
    [][ScanFindsCrossing =>
          /\ x0' = x1 /\ y0' = y1 /\ d0' = direc
          /\ x2' = x1 + xdirec[direc] /\ y2' = y1 + ydirec[direc]
          /\ x1' = x2' /\ y1' = y2'
          /\ dt' = direc
          /\ direc' = nexd[direc]
          /\ pc' = "thread" /\ ~bExit' /\ ~bStart'
          /\ vecTop' = 1
          /\ Len(hits') = Len(hits) + 1
          /\ EdgeOfHit(hits'[Len(hits')]) = LimbBetween(x1, y1, x2', y2')
          /\ contVec'.x = <<hits'[Len(hits')].px>>
          /\ contVec'.y = <<hits'[Len(hits')].py>>
          /\ BotOf(bounds', LimbBetween(x1, y1, x2', y2')) # contourNum]_vars

\* every limb slot of the limits table, those of the last row and column too
Slots == {HORIZONTAL, VERTICAL} \X (0..(mf - 1)) \X (0..(nf - 1))

\* the limb the probe of this step looks at
ProbedLimb == LimbBetween(x1, y1, X2, Y2)

\* FOLLOWING, and the limb the probe will look at has bot = contourNum
FollowFindsCrossing == InLoop /\ ~bStart /\ inRange /\ Cont

\* C21: a step taken in FOLLOWING with the probed limb's bot equal to
\* contourNum appends exactly one point to the active curve, advances the
\* bot of that limb only (to bot + 1, or to MAX_LOOP_LIMIT when bot + 1
\* exceeds top), leaves the cursor (x1, y1) where it was, and sets dt to
\* id[d] and direc to nsd[d] for the old direction d.
C21_FollowCrossing ==
    [][FollowFindsCrossing =>
          /\ Len(contVec'.x) = Len(contVec.x) + 1
          /\ Len(contVec'.y) = Len(contVec.y) + 1
          /\ vecTop' = vecTop + 1
          /\ contourVectors' = contourVectors
          /\ BotOf(bounds', ProbedLimb) =
                IF BotOf(bounds, ProbedLimb) + 1 > TopOf(bounds, ProbedLimb)
                THEN MAX_LOOP_LIMIT
                ELSE BotOf(bounds, ProbedLimb) + 1
          /\ \A e \in Slots :
                /\ e # ProbedLimb => BotOf(bounds', e) = BotOf(bounds, e)
                /\ TopOf(bounds', e) = TopOf(bounds, e)
          /\ x1' = x1 /\ y1' = y1
          /\ dt' = id[direc]
          /\ direc' = nsd[direc]
          /\ ~bStart']_vars

\* FOLLOWING, two or more points stored, the last probe found a crossing and
\* turned, and the limb of the last point had its bot advanced by one
C21_Witness ==
    /\ pc = "thread" /\ ~bStart /\ ~bExit
    /\ vecTop >= 2 /\ Len(hits) >= 2
    /\ bInRange /\ bCont
    /\ dt = id[nexd[direc]]
    /\ BotOf(bounds, EdgeOfHit(hits[Len(hits)])) = contourNum + 1

\* FOLLOWING, the limb the probe will look at has no crossing, and the next
\* direction is the direction of entry
FollowComesRound ==
    /\ InLoop /\ ~bStart /\ inRange /\ ~Cont
    /\ nexd[direc] = dt

\* the curve pushed last
LastCurve == contourVectors[Len(contourVectors)]

\* C22: a step taken in FOLLOWING with no crossing on the probed limb and
\* nexd[direc] = dt pushes the active curve as closed, with its first point
\* appended again as its last and finCW = COUNTERCLOCKWISE if ccwknt < 0 and
\* CLOCKWISE otherwise, resets ccwknt to 0, and resumes SCANNING with
\* direc = d0, the cursor at (x0, y0) moved one step in the direction d0, and
\* a new active curve without points.
C22_Closure ==
    [][FollowComesRound =>
          /\ Len(contourVectors') = Len(contourVectors) + 1
          /\ SubSeq(contourVectors', 1, Len(contourVectors)) = contourVectors
          /\ LastCurve'.x = Append(contVec.x, contVec.x[1])
          /\ LastCurve'.y = Append(contVec.y, contVec.y[1])
          /\ LastCurve'.finCW =
                Def(IF ccwknt < 0 THEN COUNTERCLOCKWISE ELSE CLOCKWISE)
          /\ ccwknt' = 0
          /\ bStart' /\ pc' = "thread" /\ ~bExit'
          /\ direc' = d0
          /\ x1' = x0 + xdirec[d0] /\ y1' = y0 + ydirec[d0]
          /\ contVec'.x = <<>> /\ contVec'.y = <<>>
          /\ vecTop' = 0]_vars

\* a closed curve of four or more crossings was just pushed: SCANNING again,
\* one step from the anchor, no point in the active curve, ccwknt = 0
C22_Witness ==
    /\ pc = "thread" /\ bStart /\ ~bExit
    /\ contourVectors # <<>>
    /\ Len(contourVectors) > vecBase
    /\ kinds[Len(kinds)].kind = "closed"
    /\ Len(LastCurve.x) >= 5
    /\ FirstPoint(LastCurve) = LastPoint(LastCurve)
    /\ vecTop = 0 /\ contVec.x = <<>> /\ ccwknt = 0
    /\ direc = d0 /\ x1 = x0 + xdirec[d0] /\ y1 = y0 + ydirec[d0]
    /\ bInRange /\ ~bCont

\* FOLLOWING, and the probe of this step leaves the grid: the active curve
\* is about to be pushed as open
ExitPending == InLoop /\ ~bStart /\ ~inRange

\* the limb lies on the outer boundary of the grid
OnBoundary(e) ==
    IF e[1] = HORIZONTAL THEN e[2] = 0 \/ e[2] = mf - 1
    ELSE e[3] = 0 \/ e[3] = nf - 1

\* the limb of the point stored last in this trace
LastHitLimb == EdgeOfHit(hits[Len(hits)])

\* the point has a coordinate on the boundary line of the limb e: row e[2]
\* for a horizontal limb, column e[3] for a vertical one
OnLineOf(pt, e) ==
    IF e[1] = HORIZONTAL THEN pt[2] = RInt(e[2]) ELSE pt[1] = RInt(e[3])

\* C23: when a curve is about to be pushed as open, its last point was
\* stored by the step just before (the last probe was in range and found a
\* crossing), the limb of that point lies on the outer boundary (row 0, row
\* mf - 1, column 0 or column nf - 1) with the point on that row or column,
\* and the record and orientation (bound, lmb) that finCW is derived from
\* are those of that limb.
C23_ExitThroughLastCrossing ==
    ExitPending =>
        /\ bInRange /\ bCont
        /\ hits # <<>>
        /\ OnBoundary(LastHitLimb)
        /\ <<lmb, ylmb, xlmb>> = LastHitLimb
        /\ bound = <<LastHitLimb[2], LastHitLimb[3]>>
        /\ LastPoint(contVec) = <<hits[Len(hits)].px, hits[Len(hits)].py>>
        /\ OnLineOf(LastPoint(contVec), LastHitLimb)

\* an open curve of two or more points was just pushed: its last point is
\* the point stored last, on a boundary limb, and bound and lmb are those of
\* that limb
C23_Witness ==
    /\ pc = "thread" /\ bStart /\ ~bExit
    /\ Len(contourVectors) > vecBase
    /\ kinds[Len(kinds)].kind = "open"
    /\ Len(LastCurve.x) >= 2
    /\ LastPoint(LastCurve) = <<hits[Len(hits)].px, hits[Len(hits)].py>>
    /\ OnBoundary(LastHitLimb)
    /\ <<lmb, ylmb, xlmb>> = LastHitLimb
    /\ ~bInRange

\* the open curves pushed so far
OpenCurves == {i \in 1..Len(contourVectors) : kinds[i].kind = "open"}

\* C25: every curve pushed as open holds at least two points, and when a
\* curve is about to be pushed as open vecTop is at least 2, so that the
\* comparison of the points at vecTop - 1 and vecTop - 2 reads no index -1.
C25_OpenCurveTwoPoints ==
    /\ \A i \in OpenCurves : Len(contourVectors[i].x) >= 2
    /\ ExitPending => vecTop >= 2

\* the limb of the first point of the active curve
FirstHitLimb == EdgeOfHit(hits[Len(hits) - vecTop + 1])

\* C24: when a curve is about to be pushed as open, its first point was
\* interpolated on a limb of the outer boundary, on the row or column of
\* that limb, and the curve was started during the perimeter pass of the
\* scan (bEdg still true).
C24_OpenCurveStartsOnBoundary ==
    ExitPending =>
        /\ bEdg
        /\ vecTop >= 1 /\ Len(hits) >= vecTop
        /\ OnBoundary(FirstHitLimb)
        /\ OnLineOf(FirstPoint(contVec), FirstHitLimb)

\* the four limbs of the cell whose lower left vertex is (cx, cy)
LimbsOfCell(cx, cy) ==
    {<<HORIZONTAL, cy, cx>>, <<HORIZONTAL, cy + 1, cx>>,
     <<VERTICAL, cy, cx>>, <<VERTICAL, cy, cx + 1>>}

\* the cells of the grid
Cells == (0..(nf - 2)) \X (0..(mf - 2))

\* the limb on which the active curve was started: from (x0, y0) in the
\* direction d0
AnchorLimb == LimbBetween(x0, y0, x0 + xdirec[d0], y0 + ydirec[d0])

\* C26: when the closure test fires (FOLLOWING, no crossing on the probed
\* limb, nexd[direc] = dt), the active curve holds at least three
\* interpolated points and the limb just probed and the limb the curve was
\* started on are limbs of one cell.
C26_ClosedOnlyAtStart ==
    FollowComesRound =>
        /\ vecTop >= 3
        /\ \E c \in Cells :
              /\ ProbedLimb \in LimbsOfCell(c[1], c[2])
              /\ AnchorLimb \in LimbsOfCell(c[1], c[2])

\* C27: ccwknt is 0 whenever the tracer is SCANNING for the start of a new
\* curve, and when the closure test fires the sign of ccwknt is the sign of
\* the curve's own ccwval: ccwknt < 0 exactly when ccwval < 0.
C27_WindingSumPerCurve ==
    /\ (InLoop /\ bStart) => ccwknt = 0
    /\ FollowComesRound => ((ccwknt < 0) <=> (ccwval < 0))

\* the two limbs are distinct limbs of one cell of the grid
Adjacent(a, b) ==
    /\ a # b
    /\ \E c \in Cells :
          a \in LimbsOfCell(c[1], c[2]) /\ b \in LimbsOfCell(c[1], c[2])

\* the limbs of the last two points of the active curve are two distinct
\* limbs of one cell
LastLimbsAdjacent ==
    (pc = "thread" /\ ~bStart /\ vecTop >= 2) =>
        Adjacent(EdgeOfHit(hits[Len(hits) - 1]), LastHitLimb)

\* the point (px, py) lies on the limb e, between its two vertices
OnLimb(px, py, e) ==
    IF e[1] = HORIZONTAL
    THEN /\ py = RInt(e[2])
         /\ RLeq[RInt(e[3]), px] /\ RLeq[px, RInt(e[3] + 1)]
    ELSE /\ px = RInt(e[3])
         /\ RLeq[RInt(e[2]), py] /\ RLeq[py, RInt(e[2] + 1)]

\* the two points lie on two distinct limbs of one cell of the grid
OnOneCell(pa, pb) ==
    \E c \in Cells :
        \E a \in LimbsOfCell(c[1], c[2]), b \in LimbsOfCell(c[1], c[2]) :
            /\ a # b
            /\ OnLimb(pa[1], pa[2], a)
            /\ OnLimb(pb[1], pb[2], b)

\* point i (from 1) of a curve
PointAt(c, i) == <<c.x[i], c.y[i]>>

\* C28: the last two interpolated points of the active curve lie on two
\* distinct limbs of one cell; as every pair of consecutive points of a
\* pushed curve was once the last pair of the active curve, no curve jumps
\* between cells that are not neighbours.
C28_Connected ==
    (pc = "thread" /\ ~bStart /\ vecTop >= 2) =>
        OnOneCell(PointAt(contVec, vecTop - 1), PointAt(contVec, vecTop))

\* C29: when a call of threadContour has set bExit and returned, every
\* rightward limb and every upward limb of the grid has been probed at least
\* once in that call (its bot compared with contourNum), whatever curves
\* were started and resumed in between.
C29_ScanCoversEveryLimb ==
    (TraceOver /\ bExit) => Edges \subseteq probed

\* the vertices of the grid, as the cursor (x1, y1) names them
Vertices == (ns..(nf - 1)) \X (ms..(mf - 1))

\* a step of the scan that leaves the trace scanning and moves the cursor
ScanMoves ==
    /\ InLoop /\ bStart /\ bStart'
    /\ <<x1', y1'>> # <<x1, y1>>

\* b comes after a when the vertices are read row by row upward, each row in
\* increasing column
RowMajorAfter(a, b) == b[2] > a[2] \/ (b[2] = a[2] /\ b[1] > a[1])

\* the vertex after v on the perimeter walked counter-clockwise from (ns, ms)
PerimeterNext(v) ==
    IF v[2] = ms /\ v[1] < nf - 1 THEN <<v[1] + 1, v[2]>>
    ELSE IF v[1] = nf - 1 /\ v[2] < mf - 1 THEN <<v[1], v[2] + 1>>
    ELSE IF v[2] = mf - 1 /\ v[1] > ns THEN <<v[1] - 1, v[2]>>
    ELSE <<v[1], v[2] - 1>>

\* where the scan's cursor goes from v: round the perimeter, and to
\* (ns, ms + 1) when the perimeter pass ends; along rows ms + 1 and up, each
\* in increasing column, and then to (ns + 1, ms); up columns ns + 1 and on,
\* and past the last of them
ScanNext(v) ==
    IF bEdg
    THEN IF ~bEdg' THEN <<ns, ms + 1>> ELSE PerimeterNext(v)
    ELSE IF direc = 0
    THEN IF v[1] + 1 < nf THEN <<v[1] + 1, v[2]>>
         ELSE IF v[2] + 1 < mf THEN <<ns, v[2] + 1>>
         ELSE <<ns + 1, ms>>
    ELSE IF v[2] + 1 < mf THEN <<v[1], v[2] + 1>>
         ELSE <<v[1] + 1, ms>>

\* the scan is over: the cursor has gone up the last column and past it
PastLastColumn == ~bEdg /\ direc = 1 /\ x1 = nf /\ y1 = ms

PerimeterEnds == pc = "thread" /\ bEdg /\ ~bEdg'

\* the probe that ends the perimeter pass after the whole walk: downward from
\* (ns, ms)
WalkedRound == <<x1, y1>> = <<ns, ms>> /\ direc = 3

\* the probe that ends the perimeter pass early: past the last column or
\* before the first, x2 outside the grid, while y2 still holds the row below
\* the grid that the exit of a curve left in it
CutShort == ~XInRange /\ y2 < ms /\ <<x1, y1>> # <<ns, ms>>

Exhausted(e) ==
    /\ BotOf(bounds, e) = MAX_LOOP_LIMIT
    /\ TopOf(bounds, e) < MAX_LOOP_LIMIT
    /\ BotOf(initBounds, e) # MAX_LOOP_LIMIT

\* the records of the table, by row and column
Records == (0..(mf - 1)) \X (0..(nf - 1))

\* a record with its two bot fields left out
Unconsumable(b) == [b EXCEPT !.bot0 = 0, !.bot1 = 0]

\* C31: a step of a session after its setup leaves contLevels and the sample
\* grid as they are and leaves top0, top1, CW0 and CW1 of every record as
\* they are; a bot field changes only in a step that finds a crossing, only
\* on the limb probed in that step, and no bot field ever becomes smaller.
C31_OnlyBotGrows ==
    [][pc # "new" =>
        /\ contLevels' = contLevels /\ array' = array
        /\ \A r \in Records :
              LET old == bounds[r[1]][r[2]]
                  new == bounds'[r[1]][r[2]]
              IN  /\ Unconsumable(new) = Unconsumable(old)
                  /\ new.bot0 >= old.bot0 /\ new.bot1 >= old.bot1
                  /\ new # old => /\ pc = "thread" /\ Found
                                  /\ r = <<Ylmb, Xlmb>>
                                  /\ (Lmb = HORIZONTAL => new.bot1 = old.bot1)
                                  /\ (Lmb = VERTICAL => new.bot0 = old.bot0)]_vars

\* C32: during and after a call of threadContour, every limb that yielded a
\* point in that call has a bot other than contourNum, and no limb yielded
\* two of the call's points.
C32_ConsumedOnce ==
    (pc \in {"thread", "ready"} /\ Len(calls) > 0) =>
        /\ \A i \in 1..Len(hits) :
              BotOf(bounds, EdgeOfHit(hits[i])) # contourNum
        /\ \A i, j \in 1..Len(hits) :
              i # j => EdgeOfHit(hits[i]) # EdgeOfHit(hits[j])

\* C33: when the first call of threadContour on a table as initFlags built
\* it has returned, every limb whose range as initFlags computed it holds
\* contourNum (bot <= contourNum <= top) has yielded a point of the call.
C33_RangeMembership ==
    (TraceOver /\ bExit /\ Len(calls) = 1) =>
        \A e \in InRangeEdges(contourNum) : HitsOn(e) >= 1

\* the call in progress or just over repeats the call before it: the same
\* level index and level, with no setup in between
Retrace ==
    /\ Len(calls) >= 2
    /\ calls[Len(calls)] = calls[Len(calls) - 1]
    /\ setups[Len(setups)].calls < Len(calls) - 1

\* C34: when a call of threadContour that repeats the call before it has
\* returned, it has pushed no curve and no limb has yielded a point in it,
\* so that no record of the table was written.
C34_RetraceIdempotent ==
    (TraceOver /\ bExit /\ Retrace) =>
        /\ Len(contourVectors) = vecBase
        /\ hits = <<>>
        /\ \A e \in Edges : BotOf(bounds, e) # contourNum

\* the caller's loop has traced every level index 0 .. nCont - 1
SessionOver == pc = "ready" /\ nextNum = nCont

\* C35: when the session has traced every level index in ascending order,
\* every limb of the grid has bot > top, its bot being MAX_LOOP_LIMIT or an
\* index that is not traced (nCont or more).
C35_NothingLeft ==
    SessionOver =>
        \A e \in Edges :
            /\ BotOf(bounds, e) > TopOf(bounds, e)
            /\ BotOf(bounds, e) = MAX_LOOP_LIMIT \/ BotOf(bounds, e) >= nCont

\* C36: on an object that is set up with a non-empty level set, level index
\* 0 has the value minZ and every limb has bot >= 1 as initFlags leaves it;
\* during and after a call of threadContour for index 0 no limb has yielded a
\* point, no curve is pushed and the table is as initFlags left it.
C36_LowestLevelCrossesNothing ==
    (pc \in {"ready", "thread"} /\ Len(contLevels) > 0) =>
        /\ At(contLevels, 0) = minZ
        /\ \A e \in Edges : BotOf(initBounds, e) >= 1
        /\ (Len(calls) > 0 /\ contourNum = 0) =>
              /\ hits = <<>>
              /\ Len(contourVectors) = vecBase
              /\ bounds = initBounds

\* C37: the probe of a limb that is marked exhausted reports no crossing,
\* whatever level index is traced, and the curve under construction never
\* holds more points than the grid has limbs, so that the points of a call
\* run out and the call returns.
C37_SentinelNeverReported ==
    /\ (InLoop /\ inRange /\ Exhausted(<<Lmb, Ylmb, Xlmb>>)) => ~Cont
    /\ pc = "thread" => vecTop <= Cardinality(Edges)

\* C38: the interpolation parameter of every point found in a call lies
\* strictly between -1 and 1, whatever the range of the samples.
C38_ParameterInsideUnit ==
    \A i \in 1..Len(hits) :
        RLess[RInt(-1), hits[i].tt] /\ RLess[hits[i].tt, RInt(1)]

\* C39: index safety inside the loop of threadContour.  The cursor
\* (x1, y1), whose sample a crossing reads, is a vertex of the grid; when the
\* probe is in range, (x2, y2) is a vertex of the grid too, bounds[ylmb][xlmb]
\* is a record of the table, and the limb consulted exists: the rightward
\* limb only for xlmb < nf - 1, the upward limb only for ylmb < mf - 1; and
\* when a followed curve leaves the grid (the open-exit branch), bound refers
\* to a record of the table.
C39_IndexSafety ==
    InLoop =>
        /\ y1 + 1 \in DOMAIN array /\ x1 + 1 \in DOMAIN array[y1 + 1]
        /\ inRange =>
              /\ Y2 + 1 \in DOMAIN array /\ X2 + 1 \in DOMAIN array[Y2 + 1]
              /\ Ylmb \in DOMAIN bounds /\ Xlmb \in DOMAIN bounds[Ylmb]
              /\ Ylmb \in 0..(mf - 1) /\ Xlmb \in 0..(nf - 1)
              /\ Lmb = HORIZONTAL => Xlmb < nf - 1
              /\ Lmb = VERTICAL => Ylmb < mf - 1
        /\ (~bStart /\ ~inRange) =>
              /\ bound # undefined
              /\ bound[1] \in DOMAIN bounds
              /\ bound[2] \in DOMAIN bounds[bound[1]]

\* a followed curve is about to leave the grid past its last column, a
\* record in hand
C39_Witness ==
    /\ InLoop /\ ~bStart /\ ~inRange
    /\ X2 = nf /\ vecTop >= 2
    /\ bound # undefined

\* C40: the revision src/unnamed/part_004 behaves as src/Contour.js does: an
\* iteration of the loop of threadContour never throws, and a crossing found
\* on a limb advances the bot of that limb, the one whose bot was compared
\* with contourNum, and nothing else of the table.
C40_RevisionStepsAsOriginal ==
    [][pc = "thread" =>
          /\ pc' # "thrown"
          /\ bounds' = IF Found
                       THEN [bounds EXCEPT ![Ylmb][Xlmb] = MarkUsed(@, Lmb)]
                       ELSE bounds]_vars

====
